---- MODULE Spec2Model ----
(***************************************************************************)
(* Model of two adapters of the home-automation platform:                  *)
(*                                                                         *)
(*  - the Somfy thermostat climate entity                                  *)
(*    (homeassistant/components/somfy/climate.py): its properties are      *)
(*    operators over the vendor device's data, its service calls are       *)
(*    actions that issue vendor commands;                                  *)
(*  - the devolo Home Control binary sensor / remote control entities, as  *)
(*    the tests in tests/components/devolo_home_control describe them.     *)
(*                                                                         *)
(* An optional value (Python None or a value v) is the sequence <<>> or    *)
(* <<v>>; an optional string is the string itself or NoneStr.              *)
(***************************************************************************)
EXTENDS Integers, Sequences, FiniteSets

VARIABLES
    climate,     \* the data behind self._climate (the vendor Thermostat)
    call,        \* the last service call on the climate entity and the data it found
    commands,    \* the vendor commands the last service call issued, in order
    errors,      \* the number of error log entries the last service call emitted
    phase,       \* devolo config entry: "loaded" before setup, "setup", "removed"
    status,      \* devolo: each device's status code
    is_on,       \* devolo: each entity's boolean value
    available,   \* devolo: each entity's availability flag
    last,        \* devolo: the last value payload each entity received, if any
    subscribed,  \* devolo: the entities registered with the publisher
    registered,  \* devolo: number of publisher.register calls
    unregistered,\* devolo: number of publisher.unregister calls
    states       \* devolo: the entities that have a state in the state machine

somfyVars == <<climate, call, commands, errors>>
devoloVars == <<phase, status, is_on, available, last, subscribed, registered,
                unregistered, states>>
vars == <<climate, call, commands, errors, phase, status, is_on, available, last,
          subscribed, registered, unregistered, states>>

----------------------------------------------------------------------------
(* Bounds *)

\* Largest temperature value of the model; temperatures are 0..MaxTemp or None.
MaxTemp == 2

----------------------------------------------------------------------------
(* Optional values *)

None == <<>>

Some(v) == <<v>>

NoneStr == "None"

\* Python truthiness of an optional number: None and 0 are falsy.
Truthy(x) == x # None /\ x[1] # 0

Temps == {None} \cup {Some(t) : t \in 0..MaxTemp}

\* The values the per-preset temperature getters take in the model.
PresetTemps == {None, Some(MaxTemp)}

----------------------------------------------------------------------------
(* Constants of the platform and of the vendor SDK, as climate.py names them *)

HVAC_MODE_AUTO == "auto"
HVAC_MODE_COOL == "cool"
HVAC_MODE_HEAT == "heat"

CURRENT_HVAC_COOL == "cooling"
CURRENT_HVAC_HEAT == "heating"
CURRENT_HVAC_IDLE == "idle"

PRESET_AWAY == "away"
PRESET_HOME == "home"
PRESET_SLEEP == "sleep"
PRESET_FROST_GUARD == "Frost Guard"
PRESET_GEOFENCING == "Geofencing"
PRESET_MANUAL == "Manual"

\* The members of the vendor enums.  "OTHER" stands for any HVAC state that
\* HVAC_MODES_MAPPING has no key for.
TargetMode == {"AT_HOME", "AWAY", "SLEEP", "MANUAL", "GEOFENCING", "FROST_PROTECTION"}
RegulationState == {"TIMETABLE", "DEROGATION"}
HvacState == {"HEAT", "COOL", "OTHER"}

\* The dict literal PRESETS_MAPPING, as its items in insertion order.
PRESETS_ITEMS_Dup ==
    << <<"AT_HOME", PRESET_HOME>>, <<"AWAY", PRESET_AWAY>>, <<"SLEEP", PRESET_SLEEP>>,
       <<"MANUAL", PRESET_MANUAL>>, <<"GEOFENCING", PRESET_MANUAL>>,
       <<"FROST_PROTECTION", PRESET_FROST_GUARD>> >>

PRESETS_ITEMS ==
    << <<"AT_HOME", PRESET_HOME>>, <<"AWAY", PRESET_AWAY>>, <<"SLEEP", PRESET_SLEEP>>,
       <<"MANUAL", PRESET_MANUAL>>, <<"GEOFENCING", PRESET_GEOFENCING>>,
       <<"FROST_PROTECTION", PRESET_FROST_GUARD>> >>

\* dict.get over a list of items: the last item with the key, or the default.
DictGet(items, key, default) ==
    LET hits == {i \in 1..Len(items) : items[i][1] = key}
    IN  IF hits = {} THEN default
        ELSE items[CHOOSE i \in hits : \A j \in hits : j <= i][2]

\* PRESETS_MAPPING.get(mode)
PRESETS_MAPPING_get(mode) == DictGet(PRESETS_ITEMS, mode, NoneStr)

\* {v: k for k, v in PRESETS_MAPPING.items()}, as items: each item reversed.
\* A later item with the same name replaces an earlier one (DictGet takes the last).
REVERSE_ITEMS_Shifted ==
    [i \in 1..Len(PRESETS_ITEMS) |->
        <<PRESETS_ITEMS[i][2], PRESETS_ITEMS[(i % Len(PRESETS_ITEMS)) + 1][1]>>]

REVERSE_ITEMS ==
    [i \in 1..Len(PRESETS_ITEMS) |-> <<PRESETS_ITEMS[i][2], PRESETS_ITEMS[i][1]>>]

\* REVERSE_PRESET_MAPPING[name]; a missing key is a KeyError, here NoneStr.
REVERSE_PRESET_MAPPING(name) == DictGet(REVERSE_ITEMS, name, NoneStr)

\* HVAC_MODES_MAPPING.get(state)
HVAC_MODES_MAPPING_get(state) ==
    DictGet(<< <<"COOL", HVAC_MODE_COOL>>, <<"HEAT", HVAC_MODE_HEAT>> >>, state, NoneStr)

----------------------------------------------------------------------------
(* The vendor thermostat: the data its getters return *)

\* At most one preset has a temperature set in the model, so that the value of
\* each per-preset getter can differ from the value of every other one.
ThermostatData ==
    {c \in [ambient : Temps, target : Temps, regulation : RegulationState,
            hvac : HvacState, mode : TargetMode,
            at_home : PresetTemps, away : PresetTemps, night : PresetTemps,
            frost : PresetTemps] :
        Cardinality({t \in {<<1, c.at_home>>, <<2, c.away>>, <<3, c.night>>,
                            <<4, c.frost>>} : t[2] # None}) <= 1}

SetTargetCmd(mode, temperature, duration) ==
    [cmd |-> "set_target", mode |-> mode, temperature |-> temperature,
     duration |-> duration]

CancelTargetCmd ==
    [cmd |-> "cancel_target", mode |-> NoneStr, temperature |-> None,
     duration |-> NoneStr]

\* The device after a command: set_target makes the mode and temperature passed the
\* target and takes the device off its timetable; cancel_target returns it to the
\* timetable.
DeviceAfter(c, cmd) ==
    IF cmd.cmd = "set_target"
    THEN [c EXCEPT !.mode = cmd.mode, !.target = cmd.temperature,
                   !.regulation = "DEROGATION"]
    ELSE [c EXCEPT !.regulation = "TIMETABLE"]

RECURSIVE DeviceAfterAll(_, _)
DeviceAfterAll(c, cmds) ==
    IF cmds = <<>> THEN c
    ELSE DeviceAfterAll(DeviceAfter(c, Head(cmds)), Tail(cmds))

----------------------------------------------------------------------------
(* SomfyClimate properties *)

current_temperature(c) == c.ambient

target_temperature(c) == c.target

hvac_mode(c) ==
    IF c.regulation = "TIMETABLE" THEN HVAC_MODE_AUTO
    ELSE HVAC_MODES_MAPPING_get(c.hvac)

hvac_modes(c) == <<HVAC_MODE_AUTO, HVAC_MODES_MAPPING_get(c.hvac)>>

hvac_action_NoGuard(c) ==
    IF hvac_mode(c) = HVAC_MODE_HEAT /\ current_temperature(c) # None
       /\ target_temperature(c) # None
       /\ current_temperature(c)[1] < target_temperature(c)[1]
    THEN CURRENT_HVAC_HEAT
    ELSE IF hvac_mode(c) = HVAC_MODE_COOL /\ current_temperature(c) # None
            /\ target_temperature(c) # None
            /\ current_temperature(c)[1] > target_temperature(c)[1]
    THEN CURRENT_HVAC_COOL
    ELSE CURRENT_HVAC_IDLE

hvac_action_NoMode(c) ==
    IF ~Truthy(current_temperature(c)) \/ ~Truthy(target_temperature(c))
    THEN CURRENT_HVAC_IDLE
    ELSE IF current_temperature(c)[1] < target_temperature(c)[1]
    THEN CURRENT_HVAC_HEAT
    ELSE IF current_temperature(c)[1] > target_temperature(c)[1]
    THEN CURRENT_HVAC_COOL
    ELSE CURRENT_HVAC_IDLE

hvac_action(c) ==
    IF ~Truthy(current_temperature(c)) \/ ~Truthy(target_temperature(c))
    THEN CURRENT_HVAC_IDLE
    ELSE IF hvac_mode(c) = HVAC_MODE_HEAT
            /\ current_temperature(c)[1] < target_temperature(c)[1]
    THEN CURRENT_HVAC_HEAT
    ELSE IF hvac_mode(c) = HVAC_MODE_COOL
            /\ current_temperature(c)[1] > target_temperature(c)[1]
    THEN CURRENT_HVAC_COOL
    ELSE CURRENT_HVAC_IDLE

preset_mode(c) == PRESETS_MAPPING_get(c.mode)

\* list(PRESETS_MAPPING.values())
preset_modes == [i \in 1..Len(PRESETS_ITEMS) |-> PRESETS_ITEMS[i][2]]

PresetNames == {preset_modes[i] : i \in 1..Len(preset_modes)}

----------------------------------------------------------------------------
(* SomfyClimate service calls: the commands and log entries each one produces *)

\* A call that returns: the commands issued and the error log entries emitted.
Outcome(cmds, errs) == [cmds |-> cmds, errs |-> errs, raised |-> FALSE]

\* A call that ends in a KeyError before it issues a command.
KeyError == [cmds |-> <<>>, errs |-> 0, raised |-> TRUE]

set_temperature_Always(c, temperature) ==
    Outcome(<<SetTargetCmd("MANUAL", temperature, "NEXT_MODE")>>, 0)

\* temperature: kwargs.get(ATTR_TEMPERATURE), None when the argument is absent.
set_temperature_do(c, temperature) ==
    IF temperature = None THEN Outcome(<<>>, 0)
    ELSE Outcome(<<SetTargetCmd("MANUAL", temperature, "NEXT_MODE")>>, 0)

set_hvac_mode_NoCheck(c, mode) ==
    IF mode = HVAC_MODE_AUTO THEN Outcome(<<CancelTargetCmd>>, 0)
    ELSE Outcome(<<SetTargetCmd("MANUAL", target_temperature(c), "FURTHER_NOTICE")>>, 0)

set_hvac_mode_do(c, mode) ==
    IF mode = hvac_mode(c) THEN Outcome(<<>>, 0)
    ELSE IF mode = HVAC_MODE_AUTO THEN Outcome(<<CancelTargetCmd>>, 0)
    ELSE Outcome(<<SetTargetCmd("MANUAL", target_temperature(c), "FURTHER_NOTICE")>>, 0)

\* The temperature branch of set_preset_mode: the value found, or unsupported.
preset_temperature_Swapped(c, name) ==
    IF name = PRESET_HOME THEN [ok |-> TRUE, t |-> c.away]
    ELSE IF name = PRESET_AWAY THEN [ok |-> TRUE, t |-> c.at_home]
    ELSE IF name = PRESET_SLEEP THEN [ok |-> TRUE, t |-> c.night]
    ELSE IF name = PRESET_FROST_GUARD THEN [ok |-> TRUE, t |-> c.frost]
    ELSE IF name \in {PRESET_MANUAL, PRESET_GEOFENCING}
    THEN [ok |-> TRUE, t |-> target_temperature(c)]
    ELSE [ok |-> FALSE, t |-> None]

preset_temperature(c, name) ==
    IF name = PRESET_HOME THEN [ok |-> TRUE, t |-> c.at_home]
    ELSE IF name = PRESET_AWAY THEN [ok |-> TRUE, t |-> c.away]
    ELSE IF name = PRESET_SLEEP THEN [ok |-> TRUE, t |-> c.night]
    ELSE IF name = PRESET_FROST_GUARD THEN [ok |-> TRUE, t |-> c.frost]
    ELSE IF name \in {PRESET_MANUAL, PRESET_GEOFENCING}
    THEN [ok |-> TRUE, t |-> target_temperature(c)]
    ELSE [ok |-> FALSE, t |-> None]

set_preset_mode_Fallback(c, name) ==
    IF preset_mode(c) = name THEN Outcome(<<>>, 0)
    ELSE IF ~preset_temperature(c, name).ok
    THEN Outcome(<<SetTargetCmd("MANUAL", target_temperature(c), "NEXT_MODE")>>, 1)
    ELSE Outcome(<<SetTargetCmd(REVERSE_PRESET_MAPPING(name),
                                preset_temperature(c, name).t, "NEXT_MODE")>>, 0)

set_preset_mode_do(c, name) ==
    IF preset_mode(c) = name THEN Outcome(<<>>, 0)
    ELSE IF ~preset_temperature(c, name).ok THEN Outcome(<<>>, 1)
    ELSE IF REVERSE_PRESET_MAPPING(name) = NoneStr THEN KeyError
    ELSE Outcome(<<SetTargetCmd(REVERSE_PRESET_MAPPING(name),
                                preset_temperature(c, name).t, "NEXT_MODE")>>, 0)

----------------------------------------------------------------------------
(* Inputs of the service calls *)

\* "off" is a platform HVAC mode the thermostat does not list.
HvacModeInputs == {HVAC_MODE_AUTO, HVAC_MODE_HEAT, HVAC_MODE_COOL, "off"}

\* Platform presets the thermostat does not support.
UnsupportedPresets == {"eco", "comfort"}

PresetInputs == PresetNames \cup UnsupportedPresets

NoCall(c) ==
    [op |-> "none", temperature |-> None, name |-> NoneStr, pre |-> c,
     raised |-> FALSE]

----------------------------------------------------------------------------
(* Climate entity: initial state and actions *)

SomfyInit ==
    /\ climate \in ThermostatData
    /\ call = NoCall(climate)
    /\ commands = <<>>
    /\ errors = 0

\* The record of a service call: its name, its argument and the data it read.
Called(op, temperature, name, raised) ==
    [op |-> op, temperature |-> temperature, name |-> name, pre |-> climate,
     raised |-> raised]

\* Each service call issues its commands to the device, which takes them in order.
set_temperature ==
    \E temperature \in Temps :
        LET outcome == set_temperature_do(climate, temperature) IN
        /\ call' = Called("set_temperature", temperature, NoneStr, outcome.raised)
        /\ commands' = outcome.cmds
        /\ errors' = outcome.errs
        /\ climate' = DeviceAfterAll(climate, outcome.cmds)
        /\ UNCHANGED devoloVars

set_hvac_mode ==
    \E mode \in HvacModeInputs :
        LET outcome == set_hvac_mode_do(climate, mode) IN
        /\ call' = Called("set_hvac_mode", None, mode, outcome.raised)
        /\ commands' = outcome.cmds
        /\ errors' = outcome.errs
        /\ climate' = DeviceAfterAll(climate, outcome.cmds)
        /\ UNCHANGED devoloVars

set_preset_mode ==
    \E name \in PresetInputs :
        LET outcome == set_preset_mode_do(climate, name) IN
        /\ call' = Called("set_preset_mode", None, name, outcome.raised)
        /\ commands' = outcome.cmds
        /\ errors' = outcome.errs
        /\ climate' = DeviceAfterAll(climate, outcome.cmds)
        /\ UNCHANGED devoloVars

\* The coordinator brings new device data: one reading changes.
\* The per-preset temperatures are settings that stay as Init chose them.
_create_device ==
    /\ \/ \E t \in Temps : climate' = [climate EXCEPT !.ambient = t]
       \/ \E t \in Temps : climate' = [climate EXCEPT !.target = t]
       \/ \E r \in RegulationState : climate' = [climate EXCEPT !.regulation = r]
       \/ \E h \in HvacState : climate' = [climate EXCEPT !.hvac = h]
       \/ \E m \in TargetMode : climate' = [climate EXCEPT !.mode = m]
    /\ climate' # climate
    /\ call' = NoCall(climate')
    /\ commands' = <<>>
    /\ errors' = 0
    /\ UNCHANGED devoloVars

----------------------------------------------------------------------------
(* devolo Home Control: binary sensor and remote control entities.          *)
(* The gateway of the tests: device "Test" carries a door sensor and an     *)
(* overload sensor, device "Remote" a remote control with one button,       *)
(* device "Disabled" is configured out.                                     *)

\* Largest button payload of the model; button payloads are 0..MaxKey.
MaxKey == 2

Devices == {"Test", "Remote", "Disabled"}

StatusCodes == {0, 1}

AllEntities == {"test_door", "test_overload", "test_button_1", "disabled_door"}

device_of(e) ==
    IF e \in {"test_door", "test_overload"} THEN "Test"
    ELSE IF e = "test_button_1" THEN "Remote"
    ELSE "Disabled"

kind_of(e) == IF e = "test_button_1" THEN "button" ELSE "sensor"

\* A disabled device produces no entity.
entities_to_add == {e \in AllEntities : device_of(e) # "Disabled"}

\* The device is online unless its status code is 1.
is_online_Always(code) == TRUE

is_online(code) == code # 1

\* The value an entity takes from a payload of its own element.
value_of(e, payload) ==
    IF kind_of(e) = "button" THEN payload # 0 ELSE payload

\* The state the state machine holds for an entity.
state(e) ==
    IF e \notin states THEN NoneStr
    ELSE IF ~available[e] THEN "unavailable"
    ELSE IF is_on[e] THEN "on" ELSE "off"

\* The unregister calls a removal makes: one per subscribed entity.
unregister_calls_PerDevice(subs) == Cardinality({device_of(e) : e \in subs})

unregister_calls(subs) == Cardinality(subs)

DevoloInit ==
    /\ phase = "loaded"
    /\ status \in [Devices -> StatusCodes]
    /\ is_on = [e \in AllEntities |-> FALSE]
    /\ available = [e \in AllEntities |-> FALSE]
    /\ last = [e \in AllEntities |-> None]
    /\ subscribed = {}
    /\ registered = 0
    /\ unregistered = 0
    /\ states = {}

\* Setting up the config entry: each entity of an enabled device is created with
\* its device's availability, registers with the publisher and writes its state.
async_setup ==
    /\ phase = "loaded"
    /\ phase' = "setup"
    /\ available' = [e \in AllEntities |->
                        e \in entities_to_add /\ is_online(status[device_of(e)])]
    /\ subscribed' = entities_to_add
    /\ registered' = registered + Cardinality(entities_to_add)
    /\ states' = entities_to_add
    /\ UNCHANGED <<status, is_on, last, unregistered>>
    /\ UNCHANGED somfyVars

\* publisher.dispatch of a value payload for an entity's element: a boolean for a
\* sensor, a key number for a button.  Only subscribed entities receive it.
dispatch_value ==
    \E e \in AllEntities :
      \E payload \in IF kind_of(e) = "button" THEN 0..MaxKey ELSE BOOLEAN :
        /\ e \in subscribed
        /\ is_on' = [is_on EXCEPT ![e] = value_of(e, payload)]
        /\ last' = [last EXCEPT ![e] = Some(payload)]
        /\ UNCHANGED <<phase, status, available, subscribed, registered,
                       unregistered, states>>
        /\ UNCHANGED somfyVars

\* The device's status changes and the gateway publishes the status message:
\* every subscribed entity of the device takes the device's availability.
dispatch_status ==
    \E d \in Devices, code \in StatusCodes :
        /\ status' = [status EXCEPT ![d] = code]
        /\ available' = [e \in AllEntities |->
                            IF e \in subscribed /\ device_of(e) = d
                            THEN is_online(code) ELSE available[e]]
        /\ UNCHANGED <<phase, is_on, last, subscribed, registered, unregistered,
                       states>>
        /\ UNCHANGED somfyVars

\* Removing the config entry: every entity unregisters and its state is removed.
async_remove ==
    /\ phase = "setup"
    /\ phase' = "removed"
    /\ unregistered' = unregistered + unregister_calls(subscribed)
    /\ subscribed' = {}
    /\ states' = {}
    /\ UNCHANGED <<status, is_on, available, last, registered>>
    /\ UNCHANGED somfyVars

----------------------------------------------------------------------------
(* Specifications *)

\* The climate entity; the devolo gateway stays as loaded, all devices online.
Init ==
    /\ SomfyInit
    /\ DevoloInit
    /\ status = [d \in Devices |-> 0]

Next ==
    \/ set_temperature
    \/ set_hvac_mode
    \/ set_preset_mode
    \/ _create_device

Spec == Init /\ [][Next]_vars

\* The devolo entities; the thermostat stays as constructed.
InitDevolo ==
    /\ DevoloInit
    /\ SomfyInit
    /\ climate = [ambient |-> None, target |-> None, regulation |-> "TIMETABLE",
                  hvac |-> "HEAT", mode |-> "AT_HOME", at_home |-> None,
                  away |-> None, night |-> None, frost |-> None]

NextDevolo ==
    \/ async_setup
    \/ dispatch_value
    \/ dispatch_status
    \/ async_remove

SpecDevolo == InitDevolo /\ [][NextDevolo]_vars

----------------------------------------------------------------------------
(* Properties of the climate entity, checked under Spec *)

\* C1: after set_preset_mode with a name that is not one of the six supported
\* presets, preset_mode is what it was, no vendor command was issued, no
\* exception was raised and exactly one error log entry was emitted.
C1_UnsupportedPresetDropped ==
    (call.op = "set_preset_mode" /\ call.name \notin PresetNames)
        => /\ preset_mode(climate) = preset_mode(call.pre)
           /\ climate = call.pre
           /\ commands = <<>>
           /\ ~call.raised
           /\ errors = 1

C1_Witness ==
    /\ call.op = "set_preset_mode"
    /\ call.name = "eco"
    /\ preset_mode(call.pre) = PRESET_AWAY
    /\ errors = 1

\* C2: after set_preset_mode(P) with P one of preset_modes, preset_mode reads P
\* (the device's target mode after set_target being the mode passed).
C2_PresetRoundTrip ==
    (call.op = "set_preset_mode" /\ call.name \in PresetNames)
        => preset_mode(climate) = call.name

C2_Witness ==
    /\ call.op = "set_preset_mode"
    /\ call.name = PRESET_FROST_GUARD
    /\ preset_mode(call.pre) = PRESET_HOME
    /\ Len(commands) = 1
    /\ preset_mode(climate) = PRESET_FROST_GUARD

\* C3: hvac_action is idle whenever the current or the target temperature is zero
\* or None, whatever the HVAC mode and the other temperature are.
C3_IdleOnFalsyTemperature ==
    (~Truthy(current_temperature(climate)) \/ ~Truthy(target_temperature(climate)))
        => hvac_action(climate) = CURRENT_HVAC_IDLE

C3_Witness ==
    /\ current_temperature(climate) = Some(0)
    /\ target_temperature(climate) = Some(MaxTemp)
    /\ hvac_mode(climate) = HVAC_MODE_HEAT
    /\ hvac_action(climate) = CURRENT_HVAC_IDLE

\* C4: set_hvac_mode(m) issues no command when m is the current hvac_mode;
\* otherwise, for m = auto, exactly one cancel_target; otherwise exactly one
\* set_target(MANUAL, the target temperature read at the call, FURTHER_NOTICE).
C4_SetHvacModeCommands ==
    call.op = "set_hvac_mode"
        => commands =
             IF call.name = hvac_mode(call.pre) THEN <<>>
             ELSE IF call.name = HVAC_MODE_AUTO THEN <<CancelTargetCmd>>
             ELSE <<[cmd |-> "set_target", mode |-> "MANUAL",
                     temperature |-> call.pre.target,
                     duration |-> "FURTHER_NOTICE"]>>

C4_Witness ==
    /\ call.op = "set_hvac_mode"
    /\ call.name = HVAC_MODE_HEAT
    /\ hvac_mode(call.pre) = HVAC_MODE_AUTO
    /\ call.pre.target = Some(1)
    /\ Len(commands) = 1
    /\ commands[1].cmd = "set_target"

\* C5: set_temperature issues no command without a temperature; with temperature
\* t it issues exactly one set_target(MANUAL, t, NEXT_MODE) in every thermostat
\* state, also when the thermostat is already in manual mode at t.
C5_SetTemperatureCommands ==
    call.op = "set_temperature"
        => commands =
             IF call.temperature = None THEN <<>>
             ELSE <<[cmd |-> "set_target", mode |-> "MANUAL",
                     temperature |-> call.temperature, duration |-> "NEXT_MODE"]>>

C5_Witness ==
    /\ call.op = "set_temperature"
    /\ call.temperature = Some(0)
    /\ call.pre.mode = "MANUAL"
    /\ call.pre.target = Some(0)
    /\ Len(commands) = 1

\* The temperature the description gives each preset: its dedicated getter, or
\* the target temperature for Manual and Geofencing.
DescribedPresetTemperature(c, name) ==
    CASE name = PRESET_HOME -> c.at_home
      [] name = PRESET_AWAY -> c.away
      [] name = PRESET_SLEEP -> c.night
      [] name = PRESET_FROST_GUARD -> c.frost
      [] name = PRESET_MANUAL -> c.target
      [] name = PRESET_GEOFENCING -> c.target

\* C6: for a valid preset P, set_preset_mode(P) issues no command when P is the
\* active preset; otherwise exactly one set_target with duration NEXT_MODE, the
\* temperature of P's getter (the target temperature read at the call for Manual
\* and Geofencing) and the target mode that maps to P.
C6_SetPresetModeCommands ==
    (call.op = "set_preset_mode" /\ call.name \in PresetNames)
        => IF preset_mode(call.pre) = call.name THEN commands = <<>>
           ELSE /\ Len(commands) = 1
                /\ commands[1].cmd = "set_target"
                /\ commands[1].duration = "NEXT_MODE"
                /\ commands[1].temperature
                      = DescribedPresetTemperature(call.pre, call.name)
                /\ commands[1].mode \in TargetMode
                /\ PRESETS_MAPPING_get(commands[1].mode) = call.name

C6_Witness ==
    /\ call.op = "set_preset_mode"
    /\ call.name = PRESET_HOME
    /\ preset_mode(call.pre) = PRESET_MANUAL
    /\ call.pre.at_home = Some(MaxTemp)
    /\ call.pre.away = None
    /\ call.pre.night = None
    /\ call.pre.target = Some(0)
    /\ Len(commands) = 1
    /\ commands[1].temperature = Some(MaxTemp)

\* C9: every target mode maps to a preset name (preset_mode is never None), each
\* name of preset_modes comes from exactly one target mode, and mapping a target
\* mode to its name and back gives the same target mode.
C9_PresetMappingBijective ==
    /\ preset_mode(climate) # NoneStr
    /\ REVERSE_PRESET_MAPPING(preset_mode(climate)) = climate.mode
    /\ \A m \in TargetMode :
          /\ PRESETS_MAPPING_get(m) # NoneStr
          /\ REVERSE_PRESET_MAPPING(PRESETS_MAPPING_get(m)) = m
    /\ \A n \in PresetNames :
          Cardinality({m \in TargetMode : PRESETS_MAPPING_get(m) = n}) = 1

C9_Witness ==
    /\ climate.mode = "GEOFENCING"
    /\ preset_mode(climate) = PRESET_GEOFENCING
    /\ REVERSE_PRESET_MAPPING(PRESET_GEOFENCING) = "GEOFENCING"

\* C10: hvac_action is heat only in heat mode with current < target and cool only
\* in cool mode with current > target; so with the regulation state TIMETABLE or
\* an unmapped HVAC state it is idle for every pair of temperatures.
C10_ActionFollowsMode ==
    /\ hvac_action(climate) = CURRENT_HVAC_HEAT
          => /\ hvac_mode(climate) = HVAC_MODE_HEAT
             /\ climate.ambient # None /\ climate.target # None
             /\ climate.ambient[1] < climate.target[1]
    /\ hvac_action(climate) = CURRENT_HVAC_COOL
          => /\ hvac_mode(climate) = HVAC_MODE_COOL
             /\ climate.ambient # None /\ climate.target # None
             /\ climate.ambient[1] > climate.target[1]
    /\ (climate.regulation = "TIMETABLE" \/ climate.hvac \notin {"HEAT", "COOL"})
          => hvac_action(climate) = CURRENT_HVAC_IDLE

C10_Witness ==
    /\ climate.regulation = "TIMETABLE"
    /\ climate.hvac = "HEAT"
    /\ climate.ambient = Some(1)
    /\ climate.target = Some(MaxTemp)
    /\ hvac_action(climate) = CURRENT_HVAC_IDLE

----------------------------------------------------------------------------
(* Properties of the devolo entities, checked under SpecDevolo *)

\* The on/off state the last value payload of an entity stands for.
PayloadState(e) == IF value_of(e, last[e][1]) THEN "on" ELSE "off"

\* C7: an entity whose device has status code 1 reports unavailable whatever the
\* last payload was; with status code 0 it reports on or off, according to the
\* last payload it received.
C7_StatusDecidesAvailability ==
    \A e \in states :
        /\ status[device_of(e)] = 1 => state(e) = "unavailable"
        /\ status[device_of(e)] = 0 => state(e) \in {"on", "off"}
        /\ (status[device_of(e)] = 0 /\ last[e] # None) => state(e) = PayloadState(e)

C7_Witness ==
    /\ "test_door" \in states
    /\ last["test_door"] = Some(TRUE)
    /\ status["Test"] = 1
    /\ state("test_door") = "unavailable"
    /\ "test_button_1" \in states
    /\ last["test_button_1"] = Some(MaxKey)
    /\ status["Remote"] = 0
    /\ state("test_button_1") = "on"

\* C8: once the integration is removed, the publisher has seen as many unregister
\* calls as subscriptions were registered at setup, no subscription is left and
\* no entity state remains.
C8_UnregisterOncePerSubscription ==
    phase = "removed"
        => /\ unregistered = registered
           /\ subscribed = {}
           /\ states = {}

C8_Witness ==
    /\ phase = "removed"
    /\ registered = Cardinality(entities_to_add)
    /\ unregistered = Cardinality(entities_to_add)
    /\ Cardinality(entities_to_add) > Cardinality({device_of(e) : e \in entities_to_add})

====
